---- MODULE Spec2Model ----
(***************************************************************************)
(* Model of src/components/molecules/Migration/index.tsx: the Migration   *)
(* component, its five state slots, the effect that recomputes them and   *)
(* the pure helpers the effect calls.                                      *)
(*                                                                         *)
(* JavaScript strings that are parsed or formatted (poolShares,            *)
(* lockedSharesV3, deadline, the message) are sequences of one-character  *)
(* strings, so that Number(), parseInt(), fromWei() and template           *)
(* interpolation are computed and not assumed.  Fixed pieces of text (the *)
(* catalog's title/text and the literal parts of the templates) are       *)
(* single elements of such a sequence.                                     *)
(* A JavaScript number is [nan, val]; an optional value is [some, v].      *)
(***************************************************************************)
EXTENDS Integers, Sequences, FiniteSets, TLC

VARIABLES
    message, title, showMigration, action, sharesLocked,     \* useState slots
    accountId, block,                                        \* useWeb3()
    status, thresholdMet, deadlinePassed, poolShares,        \* useMigrationStatus()
    poolShareOwners, lockedSharesV3, deadline, canAddShares,
    lastEval,      \* what the effect did after the last render
    changes        \* number of fact changes so far

slots == <<message, title, showMigration, action, sharesLocked>>
facts == <<accountId, block, status, thresholdMet, deadlinePassed, poolShares,
           poolShareOwners, lockedSharesV3, deadline, canAddShares>>
vars == <<message, title, showMigration, action, sharesLocked,
          accountId, block, status, thresholdMet, deadlinePassed, poolShares,
          poolShareOwners, lockedSharesV3, deadline, canAddShares,
          lastEval, changes>>

----------------------------------------------------------------------------
(* Bounds *)

MaxChanges == 4

----------------------------------------------------------------------------
(* Values *)

None(d) == [some |-> FALSE, v |-> d]
Some(x) == [some |-> TRUE, v |-> x]

NaN == [nan |-> TRUE, val |-> 0]
Num(n) == [nan |-> FALSE, val |-> n]

Null == "null"
Undefined == "undefined"

\* status is a string (line 93) that the component compares with
\* MigrationStatus.COMPLETED and MigrationStatus.NOT_STARTED only; STARTED
\* stands for every other status
NOT_STARTED == "notStarted"
STARTED == "started"
COMPLETED == "completed"
MigrationStatus == {NOT_STARTED, STARTED, COMPLETED}

\* enum MigrationAction
NONE == "none"
START_MIGRATION == "startMigration"
COMPLETE_MIGRATION == "completeMigration"
CANCEL_MIGRATION == "cancelMigration"
LOCK_SHARES == "lockShares"
REMOVE_SHARES == "removeShares"
VIEW_V4_ASSET == "viewV4Asset"
MigrationAction == {NONE, START_MIGRATION, COMPLETE_MIGRATION, CANCEL_MIGRATION,
                    LOCK_SHARES, REMOVE_SHARES, VIEW_V4_ASSET}

\* content.liquidityProvider: the five catalog entries of migration.json
ContentKeys == {"migrationNotStarted", "migrationStarted", "poolSharesLocked",
                "deadlineMetThresholdMet", "migrationComplete"}
content == [liquidityProvider |->
              [k \in ContentKeys |-> [title |-> k \o ".title", text |-> k \o ".text"]]]

Digits == <<"0", "1", "2", "3", "4", "5", "6", "7", "8", "9">>
IsDigit(c) == \E i \in 1..10 : Digits[i] = c
DigitVal(c) == (CHOOSE i \in 1..10 : Digits[i] = c) - 1

\* inputs the hooks can deliver
AccountIds == {Null, "0xA", "0xC"}
Blocks == {100, 150}
PoolSharesValues == {<<"0">>, <<"3">>, <<"-", "1">>,
                     <<"n","o","t","-","a","-","n","u","m","b","e","r">>}
PoolShareOwnersValues == {None(<<>>), Some(<<>>), Some(<<"0xB", "0xA", "0xA">>)}
LockedSharesValues == {None(<<>>), Some(<<"0">>), Some(<<"1", "2">>)}
DeadlineValues == {<<"1", "0", "0">>, <<"a", "b", "c">>}

----------------------------------------------------------------------------
(* JavaScript and web3 conversions used by the component *)

RECURSIVE DigitsValue(_)
DigitsValue(ds) ==
    IF ds = <<>> THEN 0
    ELSE 10 * DigitsValue(SubSeq(ds, 1, Len(ds) - 1)) + DigitVal(ds[Len(ds)])

AllDigits(ds) == \A i \in 1..Len(ds) : IsDigit(ds[i])

\* Number(str) on strings of digits, signs and letters: the empty string is
\* 0, an optionally signed run of digits is its value, the rest is NaN
Number(str) ==
    IF str = <<>> THEN Num(0)
    ELSE IF AllDigits(str) THEN Num(DigitsValue(str))
    ELSE IF str[1] \in {"-", "+"} /\ Len(str) > 1 /\ AllDigits(Tail(str))
         THEN Num((IF str[1] = "-" THEN -1 ELSE 1) * DigitsValue(Tail(str)))
    ELSE NaN

isNaN(n) == n.nan

RECURSIVE DigitPrefix(_)
DigitPrefix(str) ==
    IF str = <<>> \/ ~IsDigit(str[1]) THEN <<>>
    ELSE <<str[1]>> \o DigitPrefix(Tail(str))

\* parseInt(str): an optional sign, then the longest run of digits; NaN when
\* there is no digit
parseInt(str) ==
    LET signed == str # <<>> /\ str[1] \in {"-", "+"}
        body == IF signed THEN Tail(str) ELSE str
        ds == DigitPrefix(body)
    IN  IF ds = <<>> THEN NaN
        ELSE Num((IF signed /\ str[1] = "-" THEN -1 ELSE 1) * DigitsValue(ds))

\* a - b on numbers
Minus(a, b) == IF a.nan \/ b.nan THEN NaN ELSE Num(a.val - b.val)

RECURSIVE NatToString(_)
NatToString(n) ==
    IF n < 10 THEN <<Digits[n + 1]>>
    ELSE NatToString(n \div 10) \o <<Digits[(n % 10) + 1]>>

\* `${n}` for a number
NumberToString(n) ==
    IF n.nan THEN <<"N", "a", "N">>
    ELSE IF n.val < 0 THEN <<"-">> \o NatToString(-n.val)
    ELSE NatToString(n.val)

RECURSIVE StripLeadingZeros(_)
StripLeadingZeros(ds) ==
    IF Len(ds) > 1 /\ ds[1] = "0" THEN StripLeadingZeros(Tail(ds)) ELSE ds

RECURSIVE StripTrailingZeros(_)
StripTrailingZeros(ds) ==
    IF ds # <<>> /\ ds[Len(ds)] = "0"
    THEN StripTrailingZeros(SubSeq(ds, 1, Len(ds) - 1)) ELSE ds

RECURSIVE Zeros(_)
Zeros(n) == IF n <= 0 THEN <<>> ELSE <<"0">> \o Zeros(n - 1)

\* the 'ether' unit of Web3.utils.fromWei: 10^18 wei
EtherDecimals == 18

\* Web3.utils.fromWei(wei) for a string of digits: whole part, and the
\* 18-digit fraction without its trailing zeros when it is not zero
fromWei(wei) ==
    LET ds == StripLeadingZeros(wei)
        padded == Zeros(EtherDecimals + 1 - Len(ds)) \o ds
        cut == Len(padded) - EtherDecimals
        whole == SubSeq(padded, 1, cut)
        fraction == StripTrailingZeros(SubSeq(padded, cut + 1, Len(padded)))
    IN  IF fraction = <<>> THEN whole ELSE whole \o <<".">> \o fraction

----------------------------------------------------------------------------
(* The closure of one render: the hook values the helpers read *)

Env == [accountId |-> accountId, block |-> block, status |-> status,
        thresholdMet |-> thresholdMet, deadlinePassed |-> deadlinePassed,
        poolShares |-> poolShares, poolShareOwners |-> poolShareOwners,
        lockedSharesV3 |-> lockedSharesV3, deadline |-> deadline,
        canAddShares |-> canAddShares]

Held == [message |-> message, title |-> title, showMigration |-> showMigration,
         action |-> action, sharesLocked |-> sharesLocked]

\* lockedSharesV3 || '0'
LockedOrZero(env) ==
    IF env.lockedSharesV3.some /\ env.lockedSharesV3.v # <<>>
    THEN env.lockedSharesV3.v ELSE <<"0">>

getLockedSharesMessage(env) ==
    <<"\n\nYou have ">> \o env.poolShares
        \o <<" pool shares\n\nYou have locked ">>
        \o fromWei(LockedOrZero(env)) \o <<" shares ">>

getRemainingBlocksMessage(env) ==
    <<"\n\n">> \o NumberToString(Minus(parseInt(env.deadline), Num(env.block)))
        \o <<" blocks left for migration deadline">>

\* isNaN(Number(x)) ? 0 : Number(x)
CoercedShares(_poolShares) ==
    IF isNaN(Number(_poolShares)) THEN 0 ELSE Number(_poolShares).val

\* lines 108-113 without the canAddShares conjunct
StartedCanLock_anyCanAdd(env, _status, _deadlinePassed, shares) ==
    _status # NOT_STARTED /\ ~_deadlinePassed /\ shares > 0

\* the condition of lines 108-113
StartedCanLock(env, _status, _deadlinePassed, shares) ==
    _status # NOT_STARTED /\ ~_deadlinePassed /\ shares > 0 /\ env.canAddShares

\* the condition of lines 122-126
NoSharesLeft(_status, _deadlinePassed, shares) ==
    _status # NOT_STARTED /\ ~_deadlinePassed /\ shares <= 0

\* lines 135-139 without the canAddShares conjunct
DeadlineOrThreshold_anyCanAdd(env, _status, _thresholdMet, _deadlinePassed) ==
    _status # NOT_STARTED /\ (_deadlinePassed \/ _thresholdMet)

\* lines 135-139 with "and" for "or" between deadline and threshold
DeadlineOrThreshold_both(env, _status, _thresholdMet, _deadlinePassed) ==
    _status # NOT_STARTED /\ (_deadlinePassed /\ _thresholdMet) /\ ~env.canAddShares

\* the condition of lines 135-139
DeadlineOrThreshold(env, _status, _thresholdMet, _deadlinePassed) ==
    _status # NOT_STARTED /\ (_deadlinePassed \/ _thresholdMet) /\ ~env.canAddShares

\* lines 148-152
Fallback ==
    [title |-> "No migration information available", message |-> <<>>, action |-> NONE]

\* lines 108-152 with the third branch tested before the first two
StartedBranches_deadlineFirst(env, _status, _thresholdMet, _deadlinePassed, shares) ==
    LET liquidityProviderContent == content.liquidityProvider
    IN  IF _status # NOT_STARTED /\ (_deadlinePassed \/ _thresholdMet)
        THEN [title |-> liquidityProviderContent["deadlineMetThresholdMet"].title,
              message |-> <<liquidityProviderContent["deadlineMetThresholdMet"].text>>
                            \o getLockedSharesMessage(env),
              action |-> NONE]
        ELSE IF StartedCanLock(env, _status, _deadlinePassed, shares)
        THEN [title |-> liquidityProviderContent["migrationStarted"].title,
              message |-> <<liquidityProviderContent["migrationStarted"].text>>
                            \o getLockedSharesMessage(env)
                            \o getRemainingBlocksMessage(env),
              action |-> LOCK_SHARES]
        ELSE IF NoSharesLeft(_status, _deadlinePassed, shares)
        THEN [title |-> liquidityProviderContent["poolSharesLocked"].title,
              message |-> <<liquidityProviderContent["poolSharesLocked"].text>>
                            \o getLockedSharesMessage(env)
                            \o getRemainingBlocksMessage(env),
              action |-> LOCK_SHARES]
        ELSE Fallback

\* lines 108-152: the branches after the two status checks
StartedBranches(env, _status, _thresholdMet, _deadlinePassed, shares) ==
    LET liquidityProviderContent == content.liquidityProvider
    IN  IF StartedCanLock(env, _status, _deadlinePassed, shares)
        THEN [title |-> liquidityProviderContent["migrationStarted"].title,
              message |-> <<liquidityProviderContent["migrationStarted"].text>>
                            \o getLockedSharesMessage(env)
                            \o getRemainingBlocksMessage(env),
              action |-> LOCK_SHARES]
        ELSE IF NoSharesLeft(_status, _deadlinePassed, shares)
        THEN [title |-> liquidityProviderContent["poolSharesLocked"].title,
              message |-> <<liquidityProviderContent["poolSharesLocked"].text>>
                            \o getLockedSharesMessage(env)
                            \o getRemainingBlocksMessage(env),
              action |-> LOCK_SHARES]
        ELSE IF DeadlineOrThreshold(env, _status, _thresholdMet, _deadlinePassed)
        THEN [title |-> liquidityProviderContent["deadlineMetThresholdMet"].title,
              message |-> <<liquidityProviderContent["deadlineMetThresholdMet"].text>>
                            \o getLockedSharesMessage(env),
              action |-> NONE]
        ELSE Fallback

\* lines 92-153 without the COMPLETED branch of lines 100-103
getMessageAndAction_noCompleted(env, _status, _thresholdMet, _deadlinePassed, _poolShares) ==
    LET shares == CoercedShares(_poolShares)
        liquidityProviderContent == content.liquidityProvider
    IN  IF _status = NOT_STARTED
        THEN [title |-> liquidityProviderContent["migrationNotStarted"].title,
              message |-> <<liquidityProviderContent["migrationNotStarted"].text>>,
              action |-> NONE]
        ELSE StartedBranches(env, _status, _thresholdMet, _deadlinePassed, shares)

getMessageAndActionForLiquidityProvider(env, _status, _thresholdMet, _deadlinePassed, _poolShares) ==
    LET shares == CoercedShares(_poolShares)
        liquidityProviderContent == content.liquidityProvider
    IN  IF _status = COMPLETED
        THEN [title |-> liquidityProviderContent["migrationComplete"].title,
              message |-> <<liquidityProviderContent["migrationComplete"].text>>,
              action |-> NONE]
        ELSE IF _status = NOT_STARTED
        THEN [title |-> liquidityProviderContent["migrationNotStarted"].title,
              message |-> <<liquidityProviderContent["migrationNotStarted"].text>>,
              action |-> NONE]
        ELSE StartedBranches(env, _status, _thresholdMet, _deadlinePassed, shares)

\* switchMessageAndAction's call, with the arguments the effect passes (line 194)
resolve(env) ==
    getMessageAndActionForLiquidityProvider(env, env.status, env.thresholdMet, env.deadlinePassed, env.poolShares)

\* the visibility test of lines 182-183
shouldShow(env) ==
    \/ CoercedShares(env.poolShares) > 0
    \/ /\ env.lockedSharesV3.some
       /\ env.lockedSharesV3.v # <<>>
       /\ env.lockedSharesV3.v # <<"0">>

\* the scan of lines 187-193
hasAlreadyLocked(_accountId, _poolShareOwners) ==
    /\ _poolShareOwners.some
    /\ \E i \in 1..Len(_poolShareOwners.v) : _accountId = _poolShareOwners.v[i]

\* lines 181-194 with the slots cleared, instead of kept, when no account is
\* connected
useEffect_clearOnNull(env, h) ==
    IF env.accountId = Null
    THEN [message |-> None(<<>>), title |-> Undefined, showMigration |-> FALSE,
          action |-> Undefined, sharesLocked |-> None(FALSE)]
    ELSE LET r == resolve(env)
         IN  [message |-> Some(r.message),
              title |-> r.title,
              showMigration |-> IF shouldShow(env) THEN TRUE ELSE h.showMigration,
              action |-> r.action,
              sharesLocked |-> IF hasAlreadyLocked(env.accountId, env.poolShareOwners)
                               THEN Some(TRUE) ELSE h.sharesLocked]

\* one run of the effect body (lines 181-194) on the slots h
useEffect(env, h) ==
    IF env.accountId = Null THEN h
    ELSE LET r == resolve(env)
         IN  [message |-> Some(r.message),
              title |-> r.title,
              showMigration |-> IF shouldShow(env) THEN TRUE ELSE h.showMigration,
              action |-> r.action,
              sharesLocked |-> IF hasAlreadyLocked(env.accountId, env.poolShareOwners)
                               THEN Some(TRUE) ELSE h.sharesLocked]

\* the dependency array of lines 195-205
Deps(env, h) ==
    <<env.accountId, env.poolShares, env.status, env.thresholdMet,
      env.deadlinePassed, h.sharesLocked, env.poolShareOwners, env.poolShares,
      env.lockedSharesV3>>

\* the effect, and its second run when the first changed sharesLocked
\* (sharesLocked is one of its own dependencies)
RunEffect(env, h) ==
    LET h1 == useEffect(env, h)
    IN  IF Deps(env, h1) # Deps(env, h) THEN useEffect(env, h1) ELSE h1

\* what the rendering shows (lines 207-224)
FeatureShown == showMigration
LockControlShown == showMigration /\ action = LOCK_SHARES

----------------------------------------------------------------------------
(* State machine *)

SetSlots(h) ==
    /\ message' = h.message
    /\ title' = h.title
    /\ showMigration' = h.showMigration
    /\ action' = h.action
    /\ sharesLocked' = h.sharesLocked

\* useState initial values (lines 60-64)
InitSlots ==
    /\ message = None(<<>>)
    /\ title = Undefined
    /\ showMigration = FALSE
    /\ action = Undefined
    /\ sharesLocked = None(FALSE)
    /\ lastEval = "unmounted"
    /\ changes = 0

\* the component is constructed while the migration data are still to come
Init ==
    /\ InitSlots
    /\ accountId \in AccountIds
    /\ status \in MigrationStatus
    /\ poolShares \in PoolSharesValues
    /\ block = 100
    /\ thresholdMet = FALSE
    /\ deadlinePassed = FALSE
    /\ poolShareOwners = None(<<>>)
    /\ lockedSharesV3 = None(<<>>)
    /\ deadline = <<"1", "0", "0">>
    /\ canAddShares = TRUE

\* the component is constructed on any snapshot
InitResolve ==
    /\ InitSlots
    /\ accountId \in AccountIds
    /\ status \in MigrationStatus
    /\ poolShares \in PoolSharesValues
    /\ block \in Blocks
    /\ thresholdMet \in BOOLEAN
    /\ deadlinePassed \in BOOLEAN
    /\ poolShareOwners \in PoolShareOwnersValues
    /\ lockedSharesV3 \in LockedSharesValues
    /\ deadline \in DeadlineValues
    /\ canAddShares \in BOOLEAN

\* first render: the effect always runs
Mount ==
    /\ lastEval = "unmounted"
    /\ SetSlots(RunEffect(Env, Held))
    /\ lastEval' = IF accountId = Null THEN "skipped" ELSE "ran"
    /\ UNCHANGED <<facts, changes>>

\* a render after a hook value changed: the effect runs when a dependency
\* differs from the previous render's
Commit ==
    /\ lastEval # "unmounted"
    /\ changes < MaxChanges
    /\ changes' = changes + 1
    /\ IF Deps(Env', Held) # Deps(Env, Held)
       THEN /\ SetSlots(RunEffect(Env', Held))
            /\ lastEval' = IF accountId' = Null THEN "skipped" ELSE "ran"
       ELSE /\ UNCHANGED slots
            /\ lastEval' = "unchanged"

ChangeAccountId ==
    /\ \E v \in AccountIds \ {accountId} : accountId' = v
    /\ UNCHANGED <<block, status, thresholdMet, deadlinePassed, poolShares,
                   poolShareOwners, lockedSharesV3, deadline, canAddShares>>
    /\ Commit

ChangeBlock ==
    /\ \E v \in Blocks \ {block} : block' = v
    /\ UNCHANGED <<accountId, status, thresholdMet, deadlinePassed, poolShares,
                   poolShareOwners, lockedSharesV3, deadline, canAddShares>>
    /\ Commit

ChangeStatus ==
    /\ \E v \in MigrationStatus \ {status} : status' = v
    /\ UNCHANGED <<accountId, block, thresholdMet, deadlinePassed, poolShares,
                   poolShareOwners, lockedSharesV3, deadline, canAddShares>>
    /\ Commit

ChangeThresholdMet ==
    /\ thresholdMet' = ~thresholdMet
    /\ UNCHANGED <<accountId, block, status, deadlinePassed, poolShares,
                   poolShareOwners, lockedSharesV3, deadline, canAddShares>>
    /\ Commit

ChangeDeadlinePassed ==
    /\ deadlinePassed' = ~deadlinePassed
    /\ UNCHANGED <<accountId, block, status, thresholdMet, poolShares,
                   poolShareOwners, lockedSharesV3, deadline, canAddShares>>
    /\ Commit

ChangePoolShares ==
    /\ \E v \in PoolSharesValues \ {poolShares} : poolShares' = v
    /\ UNCHANGED <<accountId, block, status, thresholdMet, deadlinePassed,
                   poolShareOwners, lockedSharesV3, deadline, canAddShares>>
    /\ Commit

ChangePoolShareOwners ==
    /\ \E v \in PoolShareOwnersValues \ {poolShareOwners} : poolShareOwners' = v
    /\ UNCHANGED <<accountId, block, status, thresholdMet, deadlinePassed,
                   poolShares, lockedSharesV3, deadline, canAddShares>>
    /\ Commit

ChangeLockedSharesV3 ==
    /\ \E v \in LockedSharesValues \ {lockedSharesV3} : lockedSharesV3' = v
    /\ UNCHANGED <<accountId, block, status, thresholdMet, deadlinePassed,
                   poolShares, poolShareOwners, deadline, canAddShares>>
    /\ Commit

ChangeDeadline ==
    /\ \E v \in DeadlineValues \ {deadline} : deadline' = v
    /\ UNCHANGED <<accountId, block, status, thresholdMet, deadlinePassed,
                   poolShares, poolShareOwners, lockedSharesV3, canAddShares>>
    /\ Commit

ChangeCanAddShares ==
    /\ canAddShares' = ~canAddShares
    /\ UNCHANGED <<accountId, block, status, thresholdMet, deadlinePassed,
                   poolShares, poolShareOwners, lockedSharesV3, deadline>>
    /\ Commit

Next ==
    \/ Mount
    \/ ChangeAccountId
    \/ ChangeBlock
    \/ ChangeStatus
    \/ ChangeThresholdMet
    \/ ChangeDeadlinePassed
    \/ ChangePoolShares
    \/ ChangePoolShareOwners
    \/ ChangeLockedSharesV3
    \/ ChangeDeadline
    \/ ChangeCanAddShares

Spec == Init /\ [][Next]_vars

NextResolve == Mount

SpecResolve == InitResolve /\ [][NextResolve]_vars

TypeOK ==
    /\ showMigration \in BOOLEAN
    /\ action \in MigrationAction \cup {Undefined}
    /\ sharesLocked \in {None(FALSE), Some(TRUE)}
    /\ lastEval \in {"unmounted", "skipped", "ran", "unchanged"}
    /\ changes \in 0..MaxChanges

----------------------------------------------------------------------------
(* Properties *)

Catalog(k) == content.liquidityProvider[k]
CatalogTitles == {Catalog(k).title : k \in ContentKeys}
Shares == CoercedShares(poolShares)
HeldResult == [title |-> title, message |-> message, action |-> action]
Fresh(r) == [title |-> r.title, message |-> Some(r.message), action |-> r.action]

\* C1 as stated: whenever resolve returns LOCK_SHARES, the phase is not
\* NOT_STARTED, the deadline has not passed and canAddShares is true.
C1_LockOnlyIfCanAdd ==
    (lastEval = "ran" /\ resolve(Env).action = LOCK_SHARES) =>
        status # NOT_STARTED /\ ~deadlinePassed /\ canAddShares

\* C1 amended: whenever resolve returns LOCK_SHARES, the phase is not
\* NOT_STARTED, the deadline has not passed, and canAddShares is true or the
\* coerced poolShares is not positive.
C1_LockOnlyIfCanAddOrNoShares ==
    resolve(Env).action = LOCK_SHARES =>
        status # NOT_STARTED /\ ~deadlinePassed /\ (canAddShares \/ Shares <= 0)

C1_Witness ==
    /\ lastEval = "ran"
    /\ action = LOCK_SHARES
    /\ ~canAddShares
    /\ Shares <= 0

RuleOrderScenario ==
    /\ status = STARTED
    /\ deadlinePassed
    /\ thresholdMet
    /\ poolShares = <<"3">>
    /\ canAddShares

Rule3Holds == StartedCanLock(Env, status, deadlinePassed, Shares)
Rule5Holds == DeadlineOrThreshold(Env, status, thresholdMet, deadlinePassed)

\* C2 as stated: the rule-order scenario (STARTED, deadline passed, threshold
\* met, poolShares "3", canAddShares) resolves to LOCK_SHARES with the
\* migrationStarted title, and whenever the conditions of rule 3 and rule 5
\* both hold the rule 3 outcome is returned.
C2_ScenarioHitsRule3 ==
    /\ (lastEval = "ran" /\ RuleOrderScenario) =>
          /\ resolve(Env).action = LOCK_SHARES
          /\ resolve(Env).title = Catalog("migrationStarted").title
    /\ (Rule3Holds /\ Rule5Holds) =>
          resolve(Env).title = Catalog("migrationStarted").title

\* C2 amended: the rule-order scenario resolves to the fallback result, being
\* matched neither by rule 3 nor by rule 5, and the conditions of rule 3 and
\* rule 5 never hold for the same snapshot.
C2_ScenarioHitsFallback ==
    /\ RuleOrderScenario => resolve(Env) = Fallback
    /\ ~(Rule3Holds /\ Rule5Holds)

C2_Witness ==
    /\ RuleOrderScenario
    /\ lastEval = "ran"
    /\ title = Fallback.title
    /\ action = NONE

\* C3: with a connected participant, once the component has re-evaluated,
\* the held title, message and action are resolve of the current snapshot,
\* whichever snapshot field changed last.
C3_HeldIsResolveOfCurrent ==
    (lastEval # "unmounted" /\ accountId # Null) => HeldResult = Fresh(resolve(Env))

\* the Visibility Gate as the data model words it
VisibilityGate ==
    \/ Shares > 0
    \/ lockedSharesV3.some /\ lockedSharesV3.v # <<"0">>

\* C4: the feature is shown only if the Visibility Gate is true for the
\* current snapshot.
C4_ShownOnlyIfGate == FeatureShown => VisibilityGate

\* C5: a snapshot with a non-numeric poolShares and the same snapshot with
\* poolShares "0" get the same Visibility Gate value and the same title,
\* action and message from resolve.
C5_NotANumberSameAsZero ==
    (lastEval = "ran" /\ isNaN(Number(poolShares))) =>
        LET zero == [Env EXCEPT !.poolShares = <<"0">>]
        IN  /\ shouldShow(Env) = shouldShow(zero)
            /\ resolve(Env) = resolve(zero)

Occurs(a, owners) == owners.some /\ \E i \in 1..Len(owners.v) : owners.v[i] = a

\* C6: after an evaluation with a non-null participant the duplicate-lock
\* result is true exactly when the participant occurs in the current
\* shareOwners.
C6_LockedIffOccurs ==
    lastEval = "ran" => (sharesLocked = Some(TRUE) <=> Occurs(accountId, poolShareOwners))

\* C7: for phase COMPLETED or NOT_STARTED resolve returns NONE with exactly
\* the title and text of that phase's catalog entry, whatever the other
\* fields are.
C7_PhaseOnlyEntries ==
    /\ status = COMPLETED =>
          resolve(Env) = [title |-> Catalog("migrationComplete").title,
                          message |-> <<Catalog("migrationComplete").text>>,
                          action |-> NONE]
    /\ status = NOT_STARTED =>
          resolve(Env) = [title |-> Catalog("migrationNotStarted").title,
                          message |-> <<Catalog("migrationNotStarted").text>>,
                          action |-> NONE]

C7_Witness ==
    /\ lastEval = "ran"
    /\ status = COMPLETED
    /\ title = Catalog("migrationComplete").title
    /\ ~deadlinePassed /\ canAddShares /\ Shares > 0

\* C8: for phase STARTED, deadline not passed, coerced poolShares > 0 and
\* canAddShares, resolve returns LOCK_SHARES with the migrationStarted title
\* and the migrationStarted text followed by the locked-shares suffix and the
\* remaining-blocks suffix, the same for either value of thresholdMet.
C8_StartedOffersLock ==
    (status = STARTED /\ ~deadlinePassed /\ Shares > 0 /\ canAddShares) =>
        /\ resolve(Env) = [title |-> Catalog("migrationStarted").title,
                           message |-> <<Catalog("migrationStarted").text>>
                                         \o getLockedSharesMessage(Env)
                                         \o getRemainingBlocksMessage(Env),
                           action |-> LOCK_SHARES]
        /\ resolve([Env EXCEPT !.thresholdMet = ~thresholdMet]) = resolve(Env)

C8_Witness ==
    /\ lastEval = "ran"
    /\ status = STARTED /\ ~deadlinePassed /\ Shares > 0 /\ canAddShares
    /\ thresholdMet
    /\ action = LOCK_SHARES
    /\ Len(message.v) > 2

FallbackCase ==
    /\ status \notin {COMPLETED, NOT_STARTED}
    /\ \/ deadlinePassed /\ canAddShares
       \/ ~deadlinePassed /\ Shares > 0 /\ ~canAddShares /\ ~thresholdMet

\* C9: resolve returns the fallback result exactly when the phase is neither
\* COMPLETED nor NOT_STARTED and either the deadline has passed with
\* canAddShares, or the deadline has not passed, coerced poolShares > 0 and
\* neither canAddShares nor thresholdMet holds; every other snapshot gets a
\* catalog entry.
C9_FallbackExactly ==
    /\ resolve(Env) = Fallback <=> FallbackCase
    /\ ~FallbackCase => resolve(Env).title \in CatalogTitles

C9_Witness ==
    /\ lastEval = "ran"
    /\ ~deadlinePassed /\ Shares > 0 /\ ~canAddShares /\ ~thresholdMet
    /\ status = STARTED
    /\ title = Fallback.title

\* C10: an evaluation made while the participant is null leaves title,
\* message, action, the visibility flag and the duplicate-lock flag as they
\* were.
C10_NullKeepsSlots == [][lastEval' = "skipped" => UNCHANGED slots]_vars

C10_Witness ==
    /\ lastEval = "skipped"
    /\ accountId = Null
    /\ title # Undefined
    /\ showMigration
    /\ sharesLocked = Some(TRUE)

====
